---- MODULE Spec2Model ----
(***************************************************************************)
(* Movie Argument Engine, browser client.                                  *)
(*                                                                         *)
(* State machines of the React components that hold state and issue API    *)
(* calls: SearchBar, ComparePage (with WeightSliders and the               *)
(* ComparisonResult view), MoviePage, TrendingPage and HomePage, together  *)
(* with the API client (fetchApi, compareMovies).  One run follows one     *)
(* mounted component instance; `mounted` names it.  React 18 flushes the   *)
(* state updates and the effects of a discrete event before the next event *)
(* is handled, so each event handler, with the effect its state change     *)
(* triggers, is one action; each continuation after an `await` is another. *)
(***************************************************************************)
EXTENDS Integers, Sequences, FiniteSets, TLC

VARIABLES mounted,      \* the component instance the run follows
          searchBar,    \* SearchBar: useState fields
          timers,       \* SearchBar: pending setTimeout callbacks (captured query)
          debounceRef,  \* SearchBar: debounceRef.current, index into timers (0: none / fired)
          comparePage,  \* ComparePage: useState fields
          moviePage,    \* MoviePage: useState fields and the route parameter id
          trendingPage, \* TrendingPage: useState fields
          homePage,     \* HomePage: useState fields
          net,          \* requests in flight of the mounted component
          format,       \* utils/format: the last call of a formatting function
          debounce,     \* useDebounce: arguments, state and pending timeout of one use
          apiHook,      \* useApi: state of one use and the outcome of the last execute
          localStore    \* useLocalStorage: the item under the key, the state and the rendered closure

\* the state of the utilities and hooks, which no component action changes
libVars == <<format, debounce, apiHook, localStore>>

\* the state of the components, which no utility or hook action changes
pageVars == <<mounted, searchBar, timers, debounceRef, comparePage, moviePage,
              trendingPage, homePage>>

vars == <<pageVars, net, libVars>>

Null == "null"            \* a null string (error: string | null)
None == [none |-> TRUE]   \* a null object (MovieBasic | null, ComparisonResult | null)

(***************************************************************************)
(* Bounds of the model.                                                    *)
(***************************************************************************)
MaxMinutes == 130       \* longest runtime formatted
MaxDelta == 2           \* formatCurrency: values this far around each pivot
MaxRevenue == 20        \* calculateROI: revenues 0..MaxRevenue
MaxBudget == 8          \* calculateROI: budgets -1..MaxBudget
MaxValues == 5          \* useDebounce: values 1..MaxValues
MaxLen == 2             \* longest query typed
MaxInflight == 2        \* requests of one component in flight at once
MaxTimers == 2          \* pending timeouts at once
MaxLoads == 2           \* loads of the movie page in flight at once

(***************************************************************************)
(* Strings are sequences of characters, so that trim() and length are      *)
(* computed as the code computes them.                                     *)
(***************************************************************************)
Chars == {"a", " "}

RECURSIVE StringsOfLen(_)
StringsOfLen(n) ==
  IF n = 0 THEN {<<>>}
  ELSE {Append(s, c) : s \in StringsOfLen(n - 1), c \in Chars}

Strings == UNION {StringsOfLen(n) : n \in 0..MaxLen}

IsSpace(c) == c = " "

RECURSIVE TrimStart(_)
TrimStart(s) ==
  IF s # <<>> /\ IsSpace(Head(s)) THEN TrimStart(Tail(s)) ELSE s

RECURSIVE TrimEnd(_)
TrimEnd(s) ==
  IF s # <<>> /\ IsSpace(s[Len(s)]) THEN TrimEnd(SubSeq(s, 1, Len(s) - 1)) ELSE s

\* String.prototype.trim
Trim(s) == TrimEnd(TrimStart(s))

\* Array.prototype.slice(0, n)
Slice(s, n) == SubSeq(s, 1, IF Len(s) < n THEN Len(s) ELSE n)

\* s without its i-th element
RemoveAt(s, i) == SubSeq(s, 1, i - 1) \o SubSeq(s, i + 1, Len(s))


(***************************************************************************)
(* API client (services/api).  A call settles with one of these outcomes.  *)
(***************************************************************************)
NotJson == [notJson |-> TRUE]

\* bodies of a non-2xx response: {error?: string, detail?: string}, or no JSON at all
ErrorBodies == [error : {Null, "", "Movie not found"}, detail : {Null, "", "Invalid id"}]
                 \cup {NotJson}

\* fetch() itself rejects (network failure), or the server answers non-2xx
Failures == {[kind |-> "network"]} \cup {[kind |-> "http", body |-> b] : b \in ErrorBodies}

NetworkErrorMessage == "Failed to fetch"

\* JavaScript a || b on strings: "" , null and undefined are falsy
Falsy(x) == x = Null \/ x = ""
OrElse(a, b) == IF Falsy(a) THEN b ELSE a

\* response.json().catch(() => ({ error: 'Unknown error' }))
ParsedErrorBody(body) ==
  IF body = NotJson THEN [error |-> "Unknown error", detail |-> Null] ELSE body

\* variant: detail takes precedence over error
ApiErrorMessageDetailFirst(f) ==
  IF f.kind = "network" THEN NetworkErrorMessage
  ELSE LET error == ParsedErrorBody(f.body)
       IN  OrElse(OrElse(error.detail, error.error), "Request failed")

\* fetchApi: the message of the Error a failed call throws
ApiErrorMessage(f) ==
  IF f.kind = "network" THEN NetworkErrorMessage
  ELSE LET error == ParsedErrorBody(f.body)
       IN  OrElse(OrElse(error.error, error.detail), "Request failed")

(***************************************************************************)
(* SearchBar                                                               *)
(***************************************************************************)
MinQueryLen == 2
MaxResults == 8

\* movie lists a search may return: none, a few, more than the dropdown shows
ResultCounts == {0, 2, MaxResults + 1}
MovieList(n) == [i \in 1..n |-> i]

SearchBarInit ==
  [query |-> <<>>, results |-> <<>>, isLoading |-> FALSE, isOpen |-> FALSE, error |-> Null]

\* variant: the threshold is off by one
TooShortOffByOne(q) == Len(Trim(q)) < MinQueryLen - 1

\* if (query.trim().length < 2)
TooShort(q) == Len(Trim(q)) < MinQueryLen

\* variant: the pending timer is left to run
ClearTimeoutNever(tm, ref) == tm

\* if (debounceRef.current) clearTimeout(debounceRef.current)
ClearTimeout(tm, ref) == IF ref # 0 THEN RemoveAt(tm, ref) ELSE tm

\* the effect on [query], run with the state sb the handler has produced
DebouncedSearchEffect(sb) ==
  LET cleared == ClearTimeout(timers, debounceRef)
  IN  IF TooShort(sb.query)
      THEN /\ searchBar' = [sb EXCEPT !.results = <<>>, !.isOpen = FALSE]
           /\ timers' = cleared
           /\ debounceRef' = 0
      ELSE /\ Len(cleared) < MaxTimers
           /\ searchBar' = [sb EXCEPT !.isLoading = TRUE, !.error = Null]
           /\ timers' = Append(cleared, sb.query)
           /\ debounceRef' = Len(cleared) + 1

\* onChange={(e) => setQuery(e.target.value)}
SetQuery(v) ==
  /\ mounted = "SearchBar"
  /\ v # searchBar.query
  /\ DebouncedSearchEffect([searchBar EXCEPT !.query = v])
  /\ UNCHANGED <<libVars, mounted, comparePage, moviePage, trendingPage, homePage, net>>

\* the state handleSelect and handleClear set
Cleared(sb) == [sb EXCEPT !.query = <<>>, !.results = <<>>, !.isOpen = FALSE]

\* a row of the dropdown is clicked; the effect runs only if query changed
handleSelect(m) ==
  /\ mounted = "SearchBar"
  /\ searchBar.isOpen /\ searchBar.error = Null
  /\ \E i \in 1..Len(searchBar.results) : searchBar.results[i] = m
  /\ IF searchBar.query # <<>>
     THEN DebouncedSearchEffect(Cleared(searchBar))
     ELSE searchBar' = Cleared(searchBar) /\ UNCHANGED <<timers, debounceRef>>
  /\ UNCHANGED <<libVars, mounted, comparePage, moviePage, trendingPage, homePage, net>>

\* the X button, rendered only when query is non-empty
handleClear ==
  /\ mounted = "SearchBar"
  /\ searchBar.query # <<>>
  /\ DebouncedSearchEffect(Cleared(searchBar))
  /\ UNCHANGED <<libVars, mounted, comparePage, moviePage, trendingPage, homePage, net>>

handleClickOutside ==
  /\ mounted = "SearchBar"
  /\ searchBar' = [searchBar EXCEPT !.isOpen = FALSE]
  /\ UNCHANGED <<libVars, mounted, timers, debounceRef, comparePage, moviePage, trendingPage, homePage, net>>

\* onFocus={() => results.length > 0 && setIsOpen(true)}
HandleFocus ==
  /\ mounted = "SearchBar"
  /\ Len(searchBar.results) > 0
  /\ searchBar' = [searchBar EXCEPT !.isOpen = TRUE]
  /\ UNCHANGED <<libVars, mounted, timers, debounceRef, comparePage, moviePage, trendingPage, homePage, net>>

\* the 300 ms timeout fires: the callback calls searchMovies(query) and awaits
TimerFires(i) ==
  /\ mounted = "SearchBar"
  /\ i \in 1..Len(timers)
  /\ Len(net) < MaxInflight
  /\ net' = Append(net, [api |-> "search", q |-> timers[i]])
  /\ timers' = RemoveAt(timers, i)
  /\ debounceRef' = IF debounceRef = i THEN 0
                    ELSE IF debounceRef > i THEN debounceRef - 1 ELSE debounceRef
  /\ UNCHANGED <<libVars, mounted, searchBar, comparePage, moviePage, trendingPage, homePage>>

\* variant: a response is dropped when the query is no longer the one it was issued for
SearchAppliedIfCurrent(sb, q, n) ==
  IF sb.query = q
  THEN [sb EXCEPT !.results = Slice(MovieList(n), MaxResults), !.isOpen = TRUE, !.isLoading = FALSE]
  ELSE [sb EXCEPT !.isLoading = FALSE]

\* try: setResults(response.results.slice(0, 8)); setIsOpen(true); finally;
\* q is the query the request was issued for, which the callback does not look at
SearchApplied(sb, q, n) ==
  [sb EXCEPT !.results = Slice(MovieList(n), MaxResults), !.isOpen = TRUE, !.isLoading = FALSE]

\* the response of request i arrives with n movies
SearchResolves(i, n) ==
  /\ mounted = "SearchBar"
  /\ i \in 1..Len(net)
  /\ searchBar' = SearchApplied(searchBar, net[i].q, n)
  /\ net' = RemoveAt(net, i)
  /\ UNCHANGED <<libVars, mounted, timers, debounceRef, comparePage, moviePage, trendingPage, homePage>>

\* catch: setError(...); setResults([]); finally
SearchRejects(i, f) ==
  /\ mounted = "SearchBar"
  /\ i \in 1..Len(net)
  /\ searchBar' = [searchBar EXCEPT !.error = "Search failed. Please try again.",
                                    !.results = <<>>, !.isLoading = FALSE]
  /\ net' = RemoveAt(net, i)
  /\ UNCHANGED <<libVars, mounted, timers, debounceRef, comparePage, moviePage, trendingPage, homePage>>

\* what the dropdown shows: {isOpen && (error ? ... : results.length > 0 ? ... : ...)}
SearchBarView(sb) ==
  IF ~sb.isOpen THEN "closed"
  ELSE IF sb.error # Null /\ sb.error # "" THEN "error"
  ELSE IF Len(sb.results) > 0 THEN "results"
  ELSE "no movies found"

NextSearch ==
  \/ \E v \in Strings : SetQuery(v)
  \/ \E m \in 1..(MaxResults + 1) : handleSelect(m)
  \/ handleClear
  \/ handleClickOutside
  \/ HandleFocus
  \/ \E i \in 1..MaxTimers : TimerFires(i)
  \/ \E i \in 1..MaxInflight, n \in ResultCounts : SearchResolves(i, n)
  \/ \E i \in 1..MaxInflight, f \in Failures : SearchRejects(i, f)

(***************************************************************************)
(* WeightConfig.  A weight is held in units of the slider step, 0.05.      *)
(***************************************************************************)
SliderMax == 20         \* max="1" with step="0.05"

\* Object.keys order of DEFAULT_WEIGHTS and of every {...weights, [key]: value}
WeightKeyOrder ==
  <<"vote_average", "vote_count", "popularity", "revenue",
    "runtime_quality", "release_recency", "cast_star_power">>

WeightKeys == {WeightKeyOrder[i] : i \in 1..Len(WeightKeyOrder)}

DEFAULT_WEIGHTS ==
  [vote_average |-> 5, vote_count |-> 3, popularity |-> 4, revenue |-> 2,
   runtime_quality |-> 1, release_recency |-> 2, cast_star_power |-> 3]

RECURSIVE SumFrom(_, _)
SumFrom(w, i) ==
  IF i > Len(WeightKeyOrder) THEN 0 ELSE w[WeightKeyOrder[i]] + SumFrom(w, i + 1)

\* Object.values(weights).reduce((sum, w) => sum + w, 0)
totalWeight(w) == SumFrom(w, 1)

\* className of the total: totalWeight > 0 ? 'text-primary-400' : 'text-red-400'
TotalClassName(w) == IF totalWeight(w) > 0 THEN "text-primary-400" ELSE "text-red-400"

(***************************************************************************)
(* compareMovies                                                           *)
(***************************************************************************)
\* variant: a weight of 0 is treated as missing and replaced by its default
JsonWeightsDefaulted(w) ==
  [i \in 1..Len(WeightKeyOrder) |->
     <<WeightKeyOrder[i],
       IF w[WeightKeyOrder[i]] = 0 THEN DEFAULT_WEIGHTS[WeightKeyOrder[i]]
       ELSE w[WeightKeyOrder[i]]>>]

\* JSON.stringify of a WeightConfig: its own properties, in key order
JsonWeights(w) == [i \in 1..Len(WeightKeyOrder) |-> <<WeightKeyOrder[i], w[WeightKeyOrder[i]]>>]

\* the POST /compare request compareMovies issues
CompareRequest(movie1Id, movie2Id, weights) ==
  [api |-> "compare", method |-> "POST",
   body |-> [movie1_id |-> movie1Id, movie2_id |-> movie2Id, weights |-> JsonWeights(weights)]]

Winners == {"movie1", "movie2", "tie"}

\* the comparisons the scoring service may compute for a request
Comparisons(req) ==
  {[movie1_id |-> req.body.movie1_id, movie2_id |-> req.body.movie2_id,
    winner |-> w, weights |-> req.body.weights] : w \in Winners}

\* 2xx bodies {success, comparison, error}
CompareResponses(req) ==
  [success : BOOLEAN, comparison : Comparisons(req) \cup {None},
   error : {Null, "", "TMDB unavailable"}]

\* variant: a missing comparison is not checked
CompareFailedSuccessOnly(response) == ~response.success

\* if (!response.success || !response.comparison) throw ...
CompareFailed(response) == ~response.success \/ response.comparison = None

\* variant: the body's error string is dropped
CompareErrorMessageFixed(response) == "Comparison failed"

\* new Error(response.error || 'Comparison failed')
CompareErrorMessage(response) == OrElse(response.error, "Comparison failed")

(***************************************************************************)
(* ComparePage                                                             *)
(***************************************************************************)
ComparePageInit ==
  [movie1 |-> None, movie2 |-> None, weights |-> DEFAULT_WEIGHTS,
   result |-> None, isLoading |-> FALSE, error |-> Null]

\* variant: the button stays enabled while a comparison is loading
CompareDisabledNotLoading(cp) == cp.movie1 = None \/ cp.movie2 = None

\* variant: an all-zero weight configuration blocks the button
CompareDisabledZeroTotal(cp) ==
  cp.movie1 = None \/ cp.movie2 = None \/ cp.isLoading \/ totalWeight(cp.weights) = 0

\* disabled={!movie1 || !movie2 || isLoading}
CompareDisabled(cp) == cp.movie1 = None \/ cp.movie2 = None \/ cp.isLoading

\* SearchBar onSelect={setMovie1}; the search bar is rendered while movie1 is null
SelectMovie1(m) ==
  /\ mounted = "ComparePage"
  /\ comparePage.movie1 = None
  /\ comparePage' = [comparePage EXCEPT !.movie1 = m]
  /\ UNCHANGED <<libVars, mounted, searchBar, timers, debounceRef, moviePage, trendingPage, homePage, net>>

SelectMovie2(m) ==
  /\ mounted = "ComparePage"
  /\ comparePage.movie2 = None
  /\ comparePage' = [comparePage EXCEPT !.movie2 = m]
  /\ UNCHANGED <<libVars, mounted, searchBar, timers, debounceRef, moviePage, trendingPage, homePage, net>>

\* variant: clearing the first movie also dismisses the error
clearMovie1AndError ==
  /\ mounted = "ComparePage"
  /\ comparePage.movie1 # None
  /\ comparePage' = [comparePage EXCEPT !.movie1 = None, !.result = None, !.error = Null]
  /\ UNCHANGED <<libVars, mounted, searchBar, timers, debounceRef, moviePage, trendingPage, homePage, net>>

\* the X button of the movie-1 card
clearMovie1 ==
  /\ mounted = "ComparePage"
  /\ comparePage.movie1 # None
  /\ comparePage' = [comparePage EXCEPT !.movie1 = None, !.result = None]
  /\ UNCHANGED <<libVars, mounted, searchBar, timers, debounceRef, moviePage, trendingPage, homePage, net>>

clearMovie2 ==
  /\ mounted = "ComparePage"
  /\ comparePage.movie2 # None
  /\ comparePage' = [comparePage EXCEPT !.movie2 = None, !.result = None]
  /\ UNCHANGED <<libVars, mounted, searchBar, timers, debounceRef, moviePage, trendingPage, homePage, net>>

\* WeightSliders: onChange({...weights, [key]: value}), a slider moved to value
handleWeightChange(key, value) ==
  /\ mounted = "ComparePage"
  /\ comparePage.weights[key] # value
  /\ comparePage' = [comparePage EXCEPT !.weights[key] = value]
  /\ UNCHANGED <<libVars, mounted, searchBar, timers, debounceRef, moviePage, trendingPage, homePage, net>>

\* variant: Reset leaves the cast_star_power slider where it is
handleResetButOne ==
  /\ mounted = "ComparePage"
  /\ comparePage' = [comparePage EXCEPT
       !.weights = [DEFAULT_WEIGHTS EXCEPT !.cast_star_power = comparePage.weights.cast_star_power]]
  /\ UNCHANGED <<libVars, mounted, searchBar, timers, debounceRef, moviePage, trendingPage, homePage, net>>

\* WeightSliders: onChange(DEFAULT_WEIGHTS)
handleReset ==
  /\ mounted = "ComparePage"
  /\ comparePage' = [comparePage EXCEPT !.weights = DEFAULT_WEIGHTS]
  /\ UNCHANGED <<libVars, mounted, searchBar, timers, debounceRef, moviePage, trendingPage, homePage, net>>

\* the Compare button: handleCompare up to its await
handleCompare ==
  /\ mounted = "ComparePage"
  /\ ~CompareDisabled(comparePage)
  /\ comparePage.movie1 # None /\ comparePage.movie2 # None
  /\ Len(net) < MaxInflight
  /\ comparePage' = [comparePage EXCEPT !.isLoading = TRUE, !.error = Null, !.result = None]
  /\ net' = Append(net, CompareRequest(comparePage.movie1.id, comparePage.movie2.id,
                                       comparePage.weights))
  /\ UNCHANGED <<libVars, mounted, searchBar, timers, debounceRef, moviePage, trendingPage, homePage>>

\* a 2xx response arrives: compareMovies returns or throws, handleCompare continues
CompareResolves(i, response) ==
  /\ mounted = "ComparePage"
  /\ i \in 1..Len(net)
  /\ comparePage' =
       IF CompareFailed(response)
       THEN [comparePage EXCEPT !.error = CompareErrorMessage(response), !.isLoading = FALSE]
       ELSE [comparePage EXCEPT !.result = response.comparison, !.isLoading = FALSE]
  /\ net' = RemoveAt(net, i)
  /\ UNCHANGED <<libVars, mounted, searchBar, timers, debounceRef, moviePage, trendingPage, homePage>>

\* fetchApi throws: catch (err) setError(err.message); finally
CompareRejects(i, f) ==
  /\ mounted = "ComparePage"
  /\ i \in 1..Len(net)
  /\ comparePage' = [comparePage EXCEPT !.error = ApiErrorMessage(f), !.isLoading = FALSE]
  /\ net' = RemoveAt(net, i)
  /\ UNCHANGED <<libVars, mounted, searchBar, timers, debounceRef, moviePage, trendingPage, homePage>>

(***************************************************************************)
(* ComparisonResult: what the component renders for a result               *)
(***************************************************************************)
\* variant: the movie-2 badge is shown whenever movie 1 did not win
ComparisonResultViewNotMovie1(result) ==
  [banner |-> IF result.winner # "tie" THEN "Wins!" ELSE "It's a Tie!",
   card1  |-> [ring |-> result.winner = "movie1", badge |-> result.winner = "movie1"],
   card2  |-> [ring |-> result.winner = "movie2", badge |-> result.winner # "movie1"]]

ComparisonResultView(result) ==
  [banner |-> IF result.winner # "tie" THEN "Wins!" ELSE "It's a Tie!",
   card1  |-> [ring |-> result.winner = "movie1", badge |-> result.winner = "movie1"],
   card2  |-> [ring |-> result.winner = "movie2", badge |-> result.winner = "movie2"]]

\* the movies and the slider moves a run of the compare page draws from, and the
\* winners the service declares in it
MovieIds == {1, 2}
Movies == {[id |-> n] : n \in MovieIds}
SliderInputs == {"vote_average", "runtime_quality"} \X {0, SliderMax}

ComparePageStep(M1, M2, KV, W) ==
  \/ \E m \in M1 : SelectMovie1(m)
  \/ \E m \in M2 : SelectMovie2(m)
  \/ clearMovie1
  \/ clearMovie2
  \/ \E kv \in KV : handleWeightChange(kv[1], kv[2])
  \/ handleReset
  \/ handleCompare
  \/ /\ mounted = "ComparePage"
     /\ \E i \in 1..Len(net) : \E response \in CompareResponses(net[i]) :
          /\ response.comparison # None => response.comparison.winner \in W
          /\ CompareResolves(i, response)
  \/ \E i \in 1..MaxInflight, f \in Failures : CompareRejects(i, f)

NextCompare == ComparePageStep(Movies, Movies, SliderInputs, Winners)

\* every slider moved to 0, one pair of movies, one winner
NextWeights == ComparePageStep({[id |-> 1]}, {[id |-> 2]}, WeightKeys \X {0}, {"movie1"})

(***************************************************************************)
(* MoviePage (route /movie/:id).  A load is the Promise.all of four        *)
(* fetches for one id; it fulfils when all four have, and rejects with the *)
(* first one that does.  Loaded data is held by the id it was fetched for. *)
(***************************************************************************)
MaxRecommendations == 6

Fetches == {"getMovie", "getMovieScore", "getRecommendations", "getCastAnalysis"}

\* lengths of the recommendation lists the service may return
RecommendationCounts == {0, MaxRecommendations + 1}

\* the recommendations of movie id: n movies, told apart from those of other ids
Recommendations(id, n) == [i \in 1..n |-> 10 * id + i]

MoviePageInit(id) ==
  [id |-> id, movie |-> None, scoreBreakdown |-> None, recommendations |-> <<>>,
   castAnalysis |-> None, isLoading |-> TRUE, error |-> Null]

\* loadMovie up to its await: the four requests of Promise.all([...]);
\* fulfilled counts those that have fulfilled so far
MovieLoad(id) == [api |-> "movie", id |-> id, fulfilled |-> 0]

\* what MoviePage renders
MoviePageView(mp) ==
  IF mp.isLoading THEN "spinner"
  ELSE IF mp.error # Null \/ mp.movie = None THEN "error"
  ELSE "movie"

\* a link to another movie is followed: the route parameter changes, the effect on [id] runs
Navigate(id) ==
  /\ mounted = "MoviePage"
  /\ id # moviePage.id
  /\ Len(net) < MaxLoads
  /\ moviePage' = [moviePage EXCEPT !.id = id, !.isLoading = TRUE, !.error = Null]
  /\ net' = Append(net, MovieLoad(id))
  /\ UNCHANGED <<libVars, mounted, searchBar, timers, debounceRef, comparePage, trendingPage, homePage>>

\* the state updates after the await, with the data of the load's id
MovieLoaded(mp, id, n) ==
  [mp EXCEPT !.movie = [id |-> id],
             !.scoreBreakdown = [movie_id |-> id],
             !.recommendations = Slice(Recommendations(id, n), MaxRecommendations),
             !.castAnalysis = [movie_id |-> id],
             !.isLoading = FALSE]

\* one fetch of load i fulfils; with the last one Promise.all fulfils and loadMovie continues
FetchResolves(i, n) ==
  /\ mounted = "MoviePage"
  /\ i \in 1..Len(net)
  /\ IF net[i].fulfilled + 1 = Cardinality(Fetches)
     THEN /\ moviePage' = MovieLoaded(moviePage, net[i].id, n)
          /\ net' = RemoveAt(net, i)
     ELSE /\ n = 0
          /\ net' = [net EXCEPT ![i].fulfilled = @ + 1]
          /\ UNCHANGED moviePage
  /\ UNCHANGED <<libVars, mounted, searchBar, timers, debounceRef, comparePage, trendingPage, homePage>>

\* variant: the fetches are awaited one by one, a fulfilled getMovie is kept
MovieLoadFailedPartial(mp, load, f) ==
  [mp EXCEPT !.movie = IF load.fulfilled > 0 THEN [id |-> load.id] ELSE @,
             !.error = ApiErrorMessage(f), !.isLoading = FALSE]

\* catch (err) setError(err.message); finally setIsLoading(false)
MovieLoadFailed(mp, load, f) ==
  [mp EXCEPT !.error = ApiErrorMessage(f), !.isLoading = FALSE]

\* one fetch of load i rejects: Promise.all rejects and loadMovie continues in its catch
FetchRejects(i, f) ==
  /\ mounted = "MoviePage"
  /\ i \in 1..Len(net)
  /\ moviePage' = MovieLoadFailed(moviePage, net[i], f)
  /\ net' = RemoveAt(net, i)
  /\ UNCHANGED <<libVars, mounted, searchBar, timers, debounceRef, comparePage, trendingPage, homePage>>

NextMovie ==
  \/ \E id \in MovieIds : Navigate(id)
  \/ \E i \in 1..MaxLoads, n \in RecommendationCounts : FetchResolves(i, n)
  \/ \E i \in 1..MaxLoads, f \in Failures : FetchRejects(i, f)

(***************************************************************************)
(* getTrending: the lists the service returns for a time window.           *)
(* scored_results is present only when scores were asked for, and may be   *)
(* missing or empty even then.                                             *)
(***************************************************************************)
Absent == <<"undefined">>

TrendingMovies(timeWindow) == IF timeWindow = "day" THEN <<11, 12>> ELSE <<21, 22>>

ScoredMovies(timeWindow) ==
  [i \in 1..2 |-> [movie |-> TrendingMovies(timeWindow)[i], score |-> 90 - i, grade |-> "A"]]

TrendingRequest(timeWindow, withScores) ==
  [api |-> "trending", time_window |-> timeWindow, with_scores |-> withScores]

TrendingResponses(req) ==
  [results : {<<>>, TrendingMovies(req.time_window)},
   scored_results : IF req.with_scores
                    THEN {Absent, <<>>, ScoredMovies(req.time_window)}
                    ELSE {Absent}]

(***************************************************************************)
(* TrendingPage                                                            *)
(***************************************************************************)
TrendingPageInit ==
  [timeWindow |-> "week", movies |-> <<>>, scoredMovies |-> <<>>,
   isLoading |-> TRUE, showScores |-> FALSE]

\* what TrendingPage renders below the controls
TrendingPageView(tp) ==
  IF tp.isLoading THEN "spinner"
  ELSE IF tp.showScores /\ Len(tp.scoredMovies) > 0 THEN "scored grid and stats"
  ELSE "grid"

\* the effect on [timeWindow, showScores]: loadTrending up to its await
TrendingEffect(tp) ==
  /\ Len(net) < MaxInflight
  /\ trendingPage' = [tp EXCEPT !.isLoading = TRUE]
  /\ net' = Append(net, TrendingRequest(tp.timeWindow, tp.showScores))

\* the Today / This Week buttons
setTimeWindow(timeWindow) ==
  /\ mounted = "TrendingPage"
  /\ timeWindow # trendingPage.timeWindow
  /\ TrendingEffect([trendingPage EXCEPT !.timeWindow = timeWindow])
  /\ UNCHANGED <<libVars, mounted, searchBar, timers, debounceRef, comparePage, moviePage, homePage>>

\* the Show Engine Scores checkbox
setShowScores(checked) ==
  /\ mounted = "TrendingPage"
  /\ checked # trendingPage.showScores
  /\ TrendingEffect([trendingPage EXCEPT !.showScores = checked])
  /\ UNCHANGED <<libVars, mounted, searchBar, timers, debounceRef, comparePage, moviePage, homePage>>

\* try: setMovies(data.results); if (data.scored_results) setScoredMovies(...); finally
TrendingResolves(i, data) ==
  /\ mounted = "TrendingPage"
  /\ i \in 1..Len(net)
  /\ trendingPage' =
       [trendingPage EXCEPT !.movies = data.results,
                            !.scoredMovies = IF data.scored_results # Absent
                                             THEN data.scored_results ELSE @,
                            !.isLoading = FALSE]
  /\ net' = RemoveAt(net, i)
  /\ UNCHANGED <<libVars, mounted, searchBar, timers, debounceRef, comparePage, moviePage, homePage>>

\* catch (error) console.error(...); finally setIsLoading(false)
TrendingRejects(i, f) ==
  /\ mounted = "TrendingPage"
  /\ i \in 1..Len(net)
  /\ trendingPage' = [trendingPage EXCEPT !.isLoading = FALSE]
  /\ net' = RemoveAt(net, i)
  /\ UNCHANGED <<libVars, mounted, searchBar, timers, debounceRef, comparePage, moviePage, homePage>>

NextTrending ==
  \/ \E timeWindow \in {"day", "week"} : setTimeWindow(timeWindow)
  \/ \E checked \in BOOLEAN : setShowScores(checked)
  \/ /\ mounted = "TrendingPage"
     /\ \E i \in 1..Len(net) : \E data \in TrendingResponses(net[i]) : TrendingResolves(i, data)
  \/ \E i \in 1..MaxInflight, f \in Failures : TrendingRejects(i, f)

(***************************************************************************)
(* HomePage: the trending strip                                            *)
(***************************************************************************)
MaxHomeTrending == 6

HomePageInit == [trendingMovies |-> <<>>, isLoading |-> TRUE]

\* what the trending section of HomePage renders
HomePageView(hp) == IF hp.isLoading THEN "skeletons" ELSE "grid"

\* try: setTrendingMovies(data.results.slice(0, 6)); finally
HomeResolves(i, data) ==
  /\ mounted = "HomePage"
  /\ i \in 1..Len(net)
  /\ homePage' = [homePage EXCEPT !.trendingMovies = Slice(data.results, MaxHomeTrending),
                                  !.isLoading = FALSE]
  /\ net' = RemoveAt(net, i)
  /\ UNCHANGED <<libVars, mounted, searchBar, timers, debounceRef, comparePage, moviePage, trendingPage>>

\* catch (error) console.error(...); finally setIsLoading(false)
HomeRejects(i, f) ==
  /\ mounted = "HomePage"
  /\ i \in 1..Len(net)
  /\ homePage' = [homePage EXCEPT !.isLoading = FALSE]
  /\ net' = RemoveAt(net, i)
  /\ UNCHANGED <<libVars, mounted, searchBar, timers, debounceRef, comparePage, moviePage, trendingPage>>

NextHome ==
  \/ /\ mounted = "HomePage"
     /\ \E i \in 1..Len(net) : \E data \in TrendingResponses(net[i]) : HomeResolves(i, data)
  \/ \E i \in 1..MaxInflight, f \in Failures : HomeRejects(i, f)

(***************************************************************************)
(* utils/format: formatCurrency, formatRuntime, calculateROI.  Numbers are *)
(* integers (dollars, minutes); a result is the string the function        *)
(* returns.                                                                *)
(***************************************************************************)
\* a number | null argument
NullNumber == [isNull |-> TRUE, value |-> 0]
Num(n) == [isNull |-> FALSE, value |-> n]

\* (n / d).toFixed(0) for integers n and d > 0: the quotient is printed as
\* the nearest integer to its magnitude, after a "-" when it is negative
\* (also when the magnitude rounds to 0).  With d = 10^3 or 10^6, and with d
\* a power of two, a tie n/d = k + 1/2 is exact in binary and toFixed takes
\* the larger magnitude.
ToFixed0(n, d) ==
  LET a == IF n < 0 THEN 0 - n ELSE n
      m == (a \div d) + (IF 2 * (a % d) >= d THEN 1 ELSE 0)
  IN  (IF n < 0 THEN "-" ELSE "") \o ToString(m)

\* values v below 2^31 for which v / 10^9 is a decimal tie x.x5 and the double
\* nearest to it lies below the tie; at the other ties it lies on or above it
BillionTiesBelow == {1150000000, 1450000000, 1650000000, 1950000000, 2050000000}

\* (value / 1_000_000_000).toFixed(1) for value >= 10^9
ToFixed1Billions(value) ==
  LET r == value % 100000000
      tenths == (value \div 100000000) +
                (IF r > 50000000 THEN 1
                 ELSE IF r = 50000000 /\ value \notin BillionTiesBelow THEN 1 ELSE 0)
  IN  ToString(tenths \div 10) \o "." \o ToString(tenths % 10)

formatCurrency(value) ==
  IF value >= 1000000000 THEN "$" \o ToFixed1Billions(value) \o "B"
  ELSE IF value >= 1000000 THEN "$" \o ToFixed0(value, 1000000) \o "M"
  ELSE IF value >= 1000 THEN "$" \o ToFixed0(value, 1000) \o "K"
  ELSE "$" \o ToString(value)

\* variant: the hours are always printed
formatRuntimeAlwaysHours(minutes) ==
  IF minutes.isNull \/ minutes.value = 0 THEN "N/A"
  ELSE ToString(minutes.value \div 60) \o "h " \o ToString(minutes.value % 60) \o "m"

\* minutes >= 0 here, so Math.floor(minutes / 60) and minutes % 60 are \div and %
formatRuntime(minutes) ==
  IF minutes.isNull \/ minutes.value = 0 THEN "N/A"
  ELSE LET hours == minutes.value \div 60
           mins == minutes.value % 60
       IN  IF hours > 0 THEN ToString(hours) \o "h " \o ToString(mins) \o "m"
           ELSE ToString(mins) \o "m"

\* revenue >= 0 and budget > 0 are integers, so roi is 100 * (revenue - budget) / budget
calculateROI(revenue, budget) ==
  IF budget <= 0 THEN "N/A"
  ELSE LET sign == IF revenue - budget >= 0 THEN "+" ELSE ""
       IN  sign \o ToFixed0(100 * (revenue - budget), budget) \o "%"

FormatInit == [fn |-> "none"]

\* the values formatted: around every threshold and every rounding boundary,
\* with the decimal ties of the billions
CurrencyPivots ==
  {MaxDelta, 500, 1000, 1500, 999500, 1000000, 1500000, 2000000, 999500000, 999950000,
   1000000000, 1050000000, 1150000000, 1250000000, 1500000000}
CurrencyValues == {p + d : p \in CurrencyPivots, d \in (0 - MaxDelta)..MaxDelta}

RuntimeValues == {NullNumber} \cup {Num(m) : m \in 0..MaxMinutes}

\* revenue, budget
ROIInputs ==
  ((0..MaxRevenue) \X ((0 - 1)..MaxBudget))
    \cup {<<200, 100>>, <<50, 0>>, <<50, 100>>, <<999, 1000>>, <<1000, 1000>>, <<1001, 1000>>}

FormatCurrencyCall(value) ==
  /\ mounted = "format"
  /\ format' = [fn |-> "formatCurrency", value |-> value, out |-> formatCurrency(value)]
  /\ UNCHANGED <<pageVars, net, debounce, apiHook, localStore>>

FormatRuntimeCall(minutes) ==
  /\ mounted = "format"
  /\ format' = [fn |-> "formatRuntime", minutes |-> minutes, out |-> formatRuntime(minutes)]
  /\ UNCHANGED <<pageVars, net, debounce, apiHook, localStore>>

CalculateROICall(revenue, budget) ==
  /\ mounted = "format"
  /\ format' = [fn |-> "calculateROI", revenue |-> revenue, budget |-> budget,
                out |-> calculateROI(revenue, budget)]
  /\ UNCHANGED <<pageVars, net, debounce, apiHook, localStore>>

NextFormat ==
  \/ \E value \in CurrencyValues : FormatCurrencyCall(value)
  \/ \E minutes \in RuntimeValues : FormatRuntimeCall(minutes)
  \/ \E io \in ROIInputs : CalculateROICall(io[1], io[2])

(***************************************************************************)
(* hooks: useDebounce.  The timer is scheduled in the initializer of a     *)
(* useState, which React runs on the first render only; the function the   *)
(* initializer returns is kept as that state's value and never called.     *)
(***************************************************************************)
DebounceValues == 1..MaxValues
Delays == {0, 300}

\* the first render of useDebounce(value, delay)
DebounceMount(value, delay) ==
  [value |-> value, delay |-> delay, debouncedValue |-> value,
   handler |-> <<[value |-> value, delay |-> delay]>>]

\* a later render with other arguments: no initializer runs, nothing is scheduled
DebounceRendered(db, value, delay) == [db EXCEPT !.value = value, !.delay = delay]

\* the owner re-renders with a changed value or delay
DebounceRender(value, delay) ==
  /\ mounted = "useDebounce"
  /\ <<value, delay>> # <<debounce.value, debounce.delay>>
  /\ debounce' = DebounceRendered(debounce, value, delay)
  /\ UNCHANGED <<pageVars, net, format, apiHook, localStore>>

\* the timeout fires: setDebouncedValue(value) with the value it captured
DebounceTimeout ==
  /\ mounted = "useDebounce"
  /\ debounce.handler # <<>>
  /\ debounce' = [debounce EXCEPT !.debouncedValue = debounce.handler[1].value,
                                  !.handler = <<>>]
  /\ UNCHANGED <<pageVars, net, format, apiHook, localStore>>

NextDebounce ==
  \/ \E value \in DebounceValues, delay \in Delays : DebounceRender(value, delay)
  \/ DebounceTimeout

(***************************************************************************)
(* hooks: useApi.  A call of execute is in flight in net until apiFunction *)
(* settles; settled is what the promise execute returned was settled with. *)
(***************************************************************************)
ApiArgs == {1, 2, 3}

ApiHookInit == [data |-> None, isLoading |-> FALSE, error |-> Null, settled |-> None]

\* setState({ data: null, isLoading: true, error: null })
ApiLoading(h) == [h EXCEPT !.data = None, !.isLoading = TRUE, !.error = Null]

\* variant: only the data and the flag are written, the rest of the state is kept
ApiSucceededMerged(h, result) ==
  [h EXCEPT !.data = result, !.isLoading = FALSE,
            !.settled = [kind |-> "fulfilled", value |-> result]]

\* setState({ data: result, isLoading: false, error: null }); return result
ApiSucceeded(h, result) ==
  [h EXCEPT !.data = result, !.isLoading = FALSE, !.error = Null,
            !.settled = [kind |-> "fulfilled", value |-> result]]

\* setState({ data: null, isLoading: false, error: errorMessage }); return null
ApiFailed(h, errorMessage) ==
  [h EXCEPT !.data = None, !.isLoading = FALSE, !.error = errorMessage,
            !.settled = [kind |-> "fulfilled", value |-> None]]

\* execute(...args) up to its await
ApiExecute(arg) ==
  /\ mounted = "useApi"
  /\ Len(net) < MaxInflight
  /\ apiHook' = ApiLoading(apiHook)
  /\ net' = Append(net, [api |-> "useApi", arg |-> arg])
  /\ UNCHANGED <<pageVars, format, debounce, localStore>>

\* apiFunction fulfils: the result of a call is the record of its argument
ApiResolves(i) ==
  /\ mounted = "useApi"
  /\ i \in 1..Len(net)
  /\ apiHook' = ApiSucceeded(apiHook, [value |-> net[i].arg])
  /\ net' = RemoveAt(net, i)
  /\ UNCHANGED <<pageVars, format, debounce, localStore>>

\* apiFunction rejects with an ApiError or a TypeError of fetch (err.message)
ApiRejects(i, f) ==
  /\ mounted = "useApi"
  /\ i \in 1..Len(net)
  /\ apiHook' = ApiFailed(apiHook, ApiErrorMessage(f))
  /\ net' = RemoveAt(net, i)
  /\ UNCHANGED <<pageVars, format, debounce, localStore>>

\* apiFunction rejects with a value that is not an Error
ApiRejectsNonError(i) ==
  /\ mounted = "useApi"
  /\ i \in 1..Len(net)
  /\ apiHook' = ApiFailed(apiHook, "An error occurred")
  /\ net' = RemoveAt(net, i)
  /\ UNCHANGED <<pageVars, format, debounce, localStore>>

\* reset()
ApiReset ==
  /\ mounted = "useApi"
  /\ apiHook' = [apiHook EXCEPT !.data = None, !.isLoading = FALSE, !.error = Null]
  /\ UNCHANGED <<pageVars, net, format, debounce, localStore>>

NextApi ==
  \/ \E arg \in ApiArgs : ApiExecute(arg)
  \/ \E i \in 1..MaxInflight : ApiResolves(i)
  \/ \E i \in 1..MaxInflight, f \in Failures : ApiRejects(i, f)
  \/ \E i \in 1..MaxInflight : ApiRejectsNonError(i)
  \/ ApiReset

(***************************************************************************)
(* hooks: useLocalStorage, for one key.  The values are the numbers        *)
(* 0..MaxStored; the item under the key is the string JSON.stringify       *)
(* wrote, or no item.  storedValue is the state of the hook, rendered is   *)
(* the storedValue of the latest render, which the setValue of that render *)
(* has captured.                                                           *)
(***************************************************************************)
MaxStored == 4

StoredValues == 0..MaxStored

\* localStorage.getItem(key) === null
NoItem == [present |-> FALSE, text |-> ""]

\* JSON.stringify of a number
JsonStringify(v) == ToString(v)

\* JSON.parse of a string JSON.stringify wrote
JsonParse(text) == CHOOSE v \in StoredValues : JsonStringify(v) = text

Item(v) == [present |-> TRUE, text |-> JsonStringify(v)]

\* the useState initializer: item ? JSON.parse(item) : initialValue
LocalStorageMount(item, initialValue) ==
  LET v == IF item.present /\ item.text # "" THEN JsonParse(item.text) ELSE initialValue
  IN  [item |-> item, storedValue |-> v, rendered |-> v]

\* setValue up to the end of its try block: setStoredValue(valueToStore),
\* then localStorage.setItem, which stores the item or throws (quota
\* exceeded, storage denied) into the catch that only logs
SetValue(valueToStore, written) ==
  /\ mounted = "useLocalStorage"
  /\ localStore' = [localStore EXCEPT !.storedValue = valueToStore,
                                      !.item = IF written THEN Item(valueToStore) ELSE @]
  /\ UNCHANGED <<pageVars, net, format, debounce, apiHook>>

\* setValue(value) with a plain value
SetValuePlain(value, written) == SetValue(value, written)

\* the updater prev => prev + 1
Increment(prev) == prev + 1

\* setValue(prev => prev + 1): value(storedValue) with the storedValue of the
\* render that created this setValue
SetValueFunction(written) ==
  /\ localStore.rendered < MaxStored
  /\ SetValue(Increment(localStore.rendered), written)

\* the render React schedules after setStoredValue: a new setValue closes
\* over the new storedValue
LocalStorageRender ==
  /\ mounted = "useLocalStorage"
  /\ localStore.rendered # localStore.storedValue
  /\ localStore' = [localStore EXCEPT !.rendered = localStore.storedValue]
  /\ UNCHANGED <<pageVars, net, format, debounce, apiHook>>

NextStorage ==
  \/ \E value \in StoredValues, written \in BOOLEAN : SetValuePlain(value, written)
  \/ \E written \in BOOLEAN : SetValueFunction(written)
  \/ LocalStorageRender

(***************************************************************************)
(* Specifications.  A component is followed from its mount: the state      *)
(* after its first render and mount effects, with the requests those       *)
(* effects issue in flight.                                                *)
(***************************************************************************)
Components == {"SearchBar", "ComparePage", "MoviePage", "TrendingPage", "HomePage"}

\* the components after the mount of one of the components C
PagesInit(C) ==
  /\ mounted \in C
  /\ searchBar = SearchBarInit
  /\ timers = <<>>
  /\ debounceRef = 0
  /\ comparePage = ComparePageInit
  /\ \E id \in MovieIds : /\ moviePage = MoviePageInit(id)
                          /\ mounted # "MoviePage" => id = 1
  /\ trendingPage = TrendingPageInit
  /\ homePage = HomePageInit
  /\ net = CASE mounted = "MoviePage" -> <<MovieLoad(moviePage.id)>>
             [] mounted = "TrendingPage" -> <<TrendingRequest("week", FALSE)>>
             [] mounted = "HomePage" -> <<TrendingRequest("week", FALSE)>>
             [] OTHER -> <<>>

\* the utilities and hooks, unused
LibInit ==
  /\ format = FormatInit
  /\ debounce = DebounceMount(1, 300)
  /\ apiHook = ApiHookInit
  /\ localStore = LocalStorageMount(NoItem, 0)

Init == PagesInit(Components) /\ LibInit

InitSearch == Init /\ mounted = "SearchBar"
InitCompare == Init /\ mounted = "ComparePage"
InitMovie == Init /\ mounted = "MoviePage"
InitTrending == Init /\ mounted = "TrendingPage"

Next == NextSearch \/ NextCompare \/ NextMovie \/ NextTrending \/ NextHome

\* any one component
Spec == Init /\ [][Next]_vars

SpecSearch == InitSearch /\ [][NextSearch]_vars
SpecCompare == InitCompare /\ [][NextCompare]_vars
SpecWeights == InitCompare /\ [][NextWeights]_vars
SpecMovie == InitMovie /\ [][NextMovie]_vars
SpecTrending == InitTrending /\ [][NextTrending]_vars
InitFormat == PagesInit({"format"}) /\ LibInit
SpecFormat == InitFormat /\ [][NextFormat]_vars

InitDebounce ==
  /\ PagesInit({"useDebounce"})
  /\ format = FormatInit /\ apiHook = ApiHookInit
  /\ localStore = LocalStorageMount(NoItem, 0)
  /\ \E v \in DebounceValues, d \in Delays : debounce = DebounceMount(v, d)

\* a timeout that has been scheduled does run
SpecDebounce == InitDebounce /\ [][NextDebounce]_vars /\ WF_vars(DebounceTimeout)

InitApi == PagesInit({"useApi"}) /\ LibInit
SpecApi == InitApi /\ [][NextApi]_vars

\* the hook is mounted over an empty key or over an item an earlier use wrote
InitStorage ==
  /\ PagesInit({"useLocalStorage"})
  /\ format = FormatInit /\ debounce = DebounceMount(1, 300) /\ apiHook = ApiHookInit
  /\ \E item \in {NoItem} \cup {Item(v) : v \in StoredValues} :
       localStore = LocalStorageMount(item, 0)

SpecStorage == InitStorage /\ [][NextStorage]_vars

(***************************************************************************)
(* Properties                                                              *)
(***************************************************************************)
AllZero(w) == \A k \in WeightKeys : w[k] = 0

\* the value a JSON weights object holds under key k
JsonValue(json, k) == json[CHOOSE i \in 1..Len(json) : json[i][1] = k][2]

\* C1: searchMovies is never called for a query shorter than 2 characters: a
\* timer is pending only for a query whose trimmed length is at least 2, and
\* no timer is pending while the query is shorter than that.
C1_NoShortSearch ==
  /\ \A i \in 1..Len(net) : Len(net[i].q) >= 2 /\ Len(Trim(net[i].q)) >= 2
  /\ \A i \in 1..Len(timers) : Len(Trim(timers[i])) >= 2
  /\ Len(Trim(searchBar.query)) < 2 => timers = <<>>

\* a timer was scheduled for a longer query and cancelled when the query got short
C1_Witness ==
  /\ searchBar.isLoading
  /\ searchBar.query # <<>> /\ Len(Trim(searchBar.query)) < 2
  /\ timers = <<>> /\ net = <<>>

\* C2: result and error are never both non-null; when a compare call finishes
\* exactly one of them is set, the comparison on success and a message on
\* failure; a body with success=false or no comparison is never stored.
C2_AtomicOutcome ==
  /\ ~(comparePage.result # None /\ comparePage.error # Null)
  /\ [][/\ ~(comparePage'.result # None /\ comparePage'.error # Null)
        /\ Len(net') < Len(net) =>
             (comparePage'.result # None) # (comparePage'.error # Null)
        /\ Len(net') < Len(net) =>
           \A i \in 1..Len(net) : \A response \in CompareResponses(net[i]) :
             CompareResolves(i, response) =>
               IF ~response.success \/ response.comparison = None
               THEN comparePage'.result = None /\ comparePage'.error # Null
               ELSE comparePage'.result = response.comparison /\ comparePage'.error = Null
        /\ Len(net') < Len(net) =>
           \A i \in 1..Len(net) : \A f \in Failures :
             CompareRejects(i, f) => comparePage'.result = None /\ comparePage'.error # Null
       ]_vars

\* a 2xx body without success and without an error string was turned into a failure
C2_Witness ==
  /\ comparePage.error = "Comparison failed"
  /\ comparePage.result = None /\ ~comparePage.isLoading

\* C3: an activation of Compare issues exactly one POST /api/compare; a request
\* is issued by nothing else (no retry after a failure); at most one is in
\* flight; with both movies selected and nothing loading an activation is
\* possible and issues a request, also when a result or an error is shown.
C3_OneRequestPerCompare ==
  /\ Len(net) <= 1
  /\ [][/\ Len(net') <= 1
        /\ handleCompare =>
             /\ net' = Append(net, net'[Len(net')])
             /\ net'[Len(net')].api = "compare" /\ net'[Len(net')].method = "POST"
             /\ net'[Len(net')].body.movie1_id = comparePage.movie1.id
             /\ net'[Len(net')].body.movie2_id = comparePage.movie2.id
        /\ net' # net /\ Len(net') >= Len(net) =>
             /\ Len(net') = Len(net) + 1
             /\ comparePage.movie1 # None /\ comparePage.movie2 # None
             /\ ~comparePage.isLoading /\ comparePage'.isLoading
        /\ (comparePage.movie1 # None /\ comparePage.movie2 # None /\ ~comparePage.isLoading)
             => ENABLED handleCompare
       ]_vars

\* the one request of an activation is in flight, for the selected pair
C3_Witness ==
  /\ Len(net) = 1 /\ comparePage.isLoading
  /\ comparePage.error = Null /\ comparePage.result = None
  /\ net[1].body.movie1_id = comparePage.movie1.id
  /\ net[1].body.movie2_id = comparePage.movie2.id

\* C4: the weights in the body of a compare request are the seven weights of
\* the page state at the activation, unchanged, whatever they sum to.
C4_WeightsVerbatim ==
  [][Len(net') > Len(net) =>
       LET body == net'[Len(net')].body
       IN  /\ Len(body.weights) = Cardinality(WeightKeys)
           /\ \A k \in WeightKeys : JsonValue(body.weights, k) = comparePage.weights[k]
    ]_vars

\* a request whose seven weights are all 0 is in flight
C4_Witness ==
  /\ Len(net) = 1
  /\ \A i \in 1..Len(net[1].body.weights) : net[1].body.weights[i][2] = 0

\* C5: the total of an all-zero WeightConfig is rendered in the invalid (red)
\* style and a positive total in the valid style; the Compare button is
\* disabled exactly when a movie is missing or a comparison is loading,
\* whatever the weights, so an all-zero configuration can be submitted.
C5_ZeroFlaggedNotBlocked ==
  /\ AllZero(comparePage.weights) => TotalClassName(comparePage.weights) = "text-red-400"
  /\ (\E k \in WeightKeys : comparePage.weights[k] > 0)
       => TotalClassName(comparePage.weights) = "text-primary-400"
  /\ CompareDisabled(comparePage) <=>
       (comparePage.movie1 = None \/ comparePage.movie2 = None \/ comparePage.isLoading)
  /\ (comparePage.movie1 # None /\ comparePage.movie2 # None /\ ~comparePage.isLoading)
       => ENABLED handleCompare

\* both movies are selected and every weight is 0: flagged, and Compare is enabled
C5_Witness ==
  /\ AllZero(comparePage.weights)
  /\ comparePage.movie1 # None /\ comparePage.movie2 # None /\ ~comparePage.isLoading

\* C6: the Winner badge and the ring are on the movie-1 card iff winner is
\* 'movie1' and on the movie-2 card iff winner is 'movie2'; a tie shows the tie
\* banner and no badge, and no result shows a badge on both cards.
C6_WinnerBadge ==
  comparePage.result # None =>
    LET winner == comparePage.result.winner
        view == ComparisonResultView(comparePage.result)
    IN  /\ view.card1.badge <=> winner = "movie1"
        /\ view.card1.ring <=> winner = "movie1"
        /\ view.card2.badge <=> winner = "movie2"
        /\ view.card2.ring <=> winner = "movie2"
        /\ winner = "tie" =>
             ~view.card1.badge /\ ~view.card2.badge /\ view.banner = "It's a Tie!"
        /\ ~(view.card1.badge /\ view.card2.badge)

\* a tie is displayed
C6_Witness == comparePage.result # None /\ comparePage.result.winner = "tie"

MovieData(mp) == <<mp.movie, mp.scoreBreakdown, mp.recommendations, mp.castAnalysis>>

\* C7: when a fetch of a load fails, error is set, none of the four data
\* fields changes and the error view is rendered; the data fields change only
\* when the last of the four fetches of one load fulfils, and then all four
\* hold the data of that load.
C7_AllOrNothing ==
  [][/\ \A i \in 1..Len(net) : net' = RemoveAt(net, i) =>
          \A f \in Failures : FetchRejects(i, f) =>
              /\ moviePage'.error # Null
              /\ MovieData(moviePage') = MovieData(moviePage)
              /\ MoviePageView(moviePage') = "error"
     /\ MovieData(moviePage') # MovieData(moviePage) =>
          \E i \in 1..Len(net) :
            /\ net[i].fulfilled = Cardinality(Fetches) - 1
            /\ net' = RemoveAt(net, i)
            /\ moviePage'.movie = [id |-> net[i].id]
            /\ moviePage'.scoreBreakdown = [movie_id |-> net[i].id]
            /\ moviePage'.castAnalysis = [movie_id |-> net[i].id]
            /\ \A j \in 1..Len(moviePage'.recommendations) :
                 moviePage'.recommendations[j] \div 10 = net[i].id
            /\ moviePage'.error = moviePage.error
    ]_vars

\* a load has failed: the error is held and none of the four data fields is set
C7_Witness ==
  /\ moviePage.error # Null /\ ~moviePage.isLoading
  /\ moviePage.movie = None /\ moviePage.scoreBreakdown = None
  /\ moviePage.castAnalysis = None /\ moviePage.recommendations = <<>>
  /\ net = <<>>

IsMessage(x) == x \notin {Null, ""}

\* the non-2xx responses whose JSON body carries an error or a detail string
CarriesMessage(f) ==
  f.kind = "http" /\ f.body # NotJson /\ (IsMessage(f.body.error) \/ IsMessage(f.body.detail))

\* that string: the error string, or the detail string of a body without one
CarriedMessage(f) == IF IsMessage(f.body.error) THEN f.body.error ELSE f.body.detail

C9_FailureShown ==
  [][\A i \in 1..Len(net) : net' = RemoveAt(net, i) =>
       \A f \in Failures :
         /\ CompareRejects(i, f) => comparePage'.error # Null
         /\ FetchRejects(i, f) =>
              moviePage'.error # Null /\ MoviePageView(moviePage') = "error"
         /\ TrendingRejects(i, f) => TrendingPageView(trendingPage') = "error"
         /\ HomeRejects(i, f) => HomePageView(homePage') = "error"
    ]_vars

\* C10: while the search bar shows its spinner, a debounce timer is pending or
\* a search request is in flight.
C10_SpinnerHasCause == searchBar.isLoading => (timers # <<>> \/ net # <<>>)

\* C11: an issued search request is never cancelled by a later input change:
\* a step that changes the query leaves every in-flight request in flight, a
\* request leaves the network only by its response being applied, and a
\* fulfilled response sets results to its first 8 entries and opens the
\* dropdown whatever the query is at that moment.
C11_NoCancellation ==
  [][/\ searchBar'.query # searchBar.query => net' = net
     /\ Len(net') < Len(net) =>
          \E i \in 1..Len(net) :
            /\ net' = RemoveAt(net, i)
            /\ searchBar'.query = searchBar.query
            /\ ~searchBar'.isLoading
            /\ \/ searchBar'.error = "Search failed. Please try again." /\ searchBar'.results = <<>>
               \/ \E n \in ResultCounts :
                    /\ searchBar'.results = [j \in 1..(IF n < 8 THEN n ELSE 8) |-> MovieList(n)[j]]
                    /\ searchBar'.isOpen
     /\ \A i \in 1..Len(net) : net' = RemoveAt(net, i) =>
          \A n \in ResultCounts : SearchResolves(i, n) =>
            /\ searchBar'.results = [j \in 1..(IF n < 8 THEN n ELSE 8) |-> MovieList(n)[j]]
            /\ searchBar'.isOpen
    ]_vars

\* the response of a request issued before the input was cleared has been
\* applied: the query is empty, the dropdown is open and shows 8 results
C11_Witness ==
  /\ mounted = "SearchBar"
  /\ searchBar.query = <<>> /\ searchBar.isOpen /\ Len(searchBar.results) = 8
  /\ net = <<>> /\ timers = <<>>

\* C12: compareMovies returns the comparison only for a 2xx body with
\* success = true and a non-null comparison; for any other 2xx body it fails
\* with the body's error string, or with 'Comparison failed' when the body
\* gives none, and the compare page then holds that message and no result.
C12_CompareBodyChecked ==
  [][/\ \A i \in 1..Len(net) : net' = RemoveAt(net, i) =>
          \A response \in CompareResponses(net[i]) : CompareResolves(i, response) =>
            IF response.success /\ response.comparison # None
            THEN comparePage'.result = response.comparison /\ comparePage'.error = Null
            ELSE /\ comparePage'.result = None
                 /\ comparePage'.error = IF response.error \notin {Null, ""}
                                         THEN response.error ELSE "Comparison failed"
     /\ (comparePage'.result # None /\ comparePage'.result # comparePage.result) =>
          \E i \in 1..Len(net) :
            /\ net' = RemoveAt(net, i)
            /\ comparePage'.result \in Comparisons(net[i])
    ]_vars

\* a 2xx body with success = false and an error string: the string is shown, no result
C12_Witness ==
  /\ mounted = "ComparePage"
  /\ comparePage.error = "TMDB unavailable" /\ comparePage.result = None
  /\ ~comparePage.isLoading /\ net = <<>>

\* a weight held in slider steps, as a percentage (one step of 0.05 is 5%)
WeightPercent(x) == (x * 100) \div SliderMax

\* C13: the default weights are 25, 15, 20, 10, 5, 10 and 15 percent and sum
\* to exactly 100 percent; the compare page starts with them; Reset is
\* available in every weight state and restores exactly these seven values,
\* changing nothing else.
C13_DefaultWeights ==
  /\ comparePage.weights = DEFAULT_WEIGHTS
  /\ [][/\ [k \in WeightKeys |-> WeightPercent(DEFAULT_WEIGHTS[k])] =
             [vote_average |-> 25, vote_count |-> 15, popularity |-> 20, revenue |-> 10,
              runtime_quality |-> 5, release_recency |-> 10, cast_star_power |-> 15]
        /\ DOMAIN DEFAULT_WEIGHTS = WeightKeys /\ Cardinality(WeightKeys) = 7
        /\ WeightPercent(totalWeight(DEFAULT_WEIGHTS)) = 100
        /\ ENABLED handleReset
        /\ handleReset =>
             /\ comparePage'.weights = DEFAULT_WEIGHTS
             /\ comparePage' = [comparePage EXCEPT !.weights = DEFAULT_WEIGHTS]
             /\ net' = net
       ]_vars

\* every slider was moved to 0, a comparison was made with those weights, and
\* Reset has restored the defaults while its result is still displayed
C13_Witness ==
  /\ mounted = "ComparePage"
  /\ comparePage.weights = DEFAULT_WEIGHTS
  /\ comparePage.result # None
  /\ \A i \in 1..Len(comparePage.result.weights) : comparePage.result.weights[i][2] = 0

\* C14: whenever a comparison result is displayed, it was computed with the
\* weights currently shown in the sliders.
C14_ResultMatchesWeights ==
  comparePage.result # None => comparePage.result.weights = JsonWeights(comparePage.weights)

\* the integers nearest to num / den (both of them at a tie), for num >= 0
Nearest(num, den) ==
  {n \in {num \div den, (num \div den) + 1} :
     2 * (IF n * den >= num THEN n * den - num ELSE num - n * den) <= den}

\* C15: formatCurrency(value) is "$", value / 10^9 rounded to one decimal and
\* "B" for value >= 10^9; "$", value / 10^6 rounded to an integer and "M" for
\* 10^6 <= value < 10^9; "$", value / 10^3 rounded to an integer and "K" for
\* 10^3 <= value < 10^6; "$" and the value otherwise; and the number printed
\* before M or K is below 1000.
C15_FormatCurrency ==
  format.fn = "formatCurrency" =>
    LET value == format.value
        out == format.out
    IN  /\ value >= 1000000000 =>
             \E t \in Nearest(value \div 10, 10000000) :
               out = "$" \o ToString(t \div 10) \o "." \o ToString(t % 10) \o "B"
        /\ (1000000 <= value /\ value < 1000000000) =>
             \E n \in Nearest(value, 1000000) : out = "$" \o ToString(n) \o "M" /\ n < 1000
        /\ (1000 <= value /\ value < 1000000) =>
             \E n \in Nearest(value, 1000) : out = "$" \o ToString(n) \o "K" /\ n < 1000
        /\ value < 1000 => out = "$" \o ToString(value)
        /\ value = 1500000000 => out = "$1.5B"
        /\ value = 2000000 => out = "$2M"
        /\ value = 500 => out = "$500"

\* C16: formatRuntime returns "N/A" for null and for 0; "<h>h <m>m" with
\* h = floor(minutes / 60) and m = minutes mod 60 for minutes >= 60, so that
\* h * 60 + m is the input; "<m>m" for 0 < minutes < 60; formatRuntime(125)
\* is "2h 5m".
C16_FormatRuntime ==
  format.fn = "formatRuntime" =>
    LET minutes == format.minutes
        out == format.out
    IN  /\ (minutes.isNull \/ minutes.value = 0) => out = "N/A"
        /\ (~minutes.isNull /\ minutes.value >= 60) =>
             \E h \in 1..minutes.value, m \in 0..59 :
               /\ h * 60 + m = minutes.value
               /\ out = ToString(h) \o "h " \o ToString(m) \o "m"
        /\ (~minutes.isNull /\ 0 < minutes.value /\ minutes.value < 60) =>
             out = ToString(minutes.value) \o "m"
        /\ minutes = Num(125) => out = "2h 5m"

\* formatRuntime(125) has returned "2h 5m"
C16_Witness ==
  format.fn = "formatRuntime" /\ format.minutes = Num(125) /\ format.out = "2h 5m"

\* C17: calculateROI returns "N/A" for every budget <= 0; for budget > 0 it
\* returns the percentage (revenue - budget) / budget * 100 rounded to an
\* integer and "%", after a "+" exactly when revenue >= budget;
\* calculateROI(200, 100) is "+100%" and calculateROI(50, 0) is "N/A".
C17_CalculateROI ==
  format.fn = "calculateROI" =>
    LET revenue == format.revenue
        budget == format.budget
        out == format.out
        gain == IF revenue >= budget THEN revenue - budget ELSE budget - revenue
    IN  /\ budget <= 0 => out = "N/A"
        /\ (budget > 0 /\ revenue >= budget) =>
             \E n \in Nearest(100 * gain, budget) : out = "+" \o ToString(n) \o "%"
        /\ (budget > 0 /\ revenue < budget) =>
             \E n \in Nearest(100 * gain, budget) : out = ToString(0 - n) \o "%"
        /\ (revenue = 200 /\ budget = 100) => out = "+100%"
        /\ (revenue = 50 /\ budget = 0) => out = "N/A"

\* C18: when the value passed to useDebounce changes and then stays
\* unchanged, the value the hook returns eventually equals it.
C18_DebounceFollows ==
  \A v \in DebounceValues :
    [](([](debounce.value = v)) => <>(debounce.debouncedValue = v))

\* C19: in every state of useApi, isLoading implies data = null and
\* error = null, and data and error are never both non-null; the promise
\* execute returns is fulfilled with the result on success and with null on
\* failure, and is never rejected.
C19_ApiStateConsistent ==
  /\ apiHook.isLoading => (apiHook.data = None /\ apiHook.error = Null)
  /\ ~(apiHook.data # None /\ apiHook.error # Null)
  /\ [][/\ apiHook'.isLoading => (apiHook'.data = None /\ apiHook'.error = Null)
        /\ ~(apiHook'.data # None /\ apiHook'.error # Null)
        /\ \A i \in 1..Len(net) : net' = RemoveAt(net, i) =>
             /\ apiHook'.settled # None /\ apiHook'.settled.kind = "fulfilled"
             /\ ApiResolves(i) => apiHook'.settled.value = [value |-> net[i].arg]
             /\ (ApiRejectsNonError(i) \/ \E f \in Failures : ApiRejects(i, f)) =>
                  apiHook'.settled.value = None
       ]_vars

\* a call has failed while another is in flight: the error is held, no data,
\* and the promise of the failed call was fulfilled with null
C19_Witness ==
  /\ mounted = "useApi"
  /\ apiHook.error # Null /\ apiHook.data = None /\ ~apiHook.isLoading
  /\ apiHook.settled # None /\ apiHook.settled.value = None
  /\ net # <<>>

\* C20: when a search request fails, the dropdown is open afterwards and
\* shows 'Search failed. Please try again.'.
C20_SearchFailureVisible ==
  [][\A i \in 1..Len(net) : net' = RemoveAt(net, i) =>
       \A f \in Failures : SearchRejects(i, f) =>
         /\ searchBar'.error = "Search failed. Please try again."
         /\ SearchBarView(searchBar') = "error"
    ]_vars

C22_ResultMatchesMovies ==
  comparePage.result # None =>
    /\ comparePage.movie1 # None /\ comparePage.movie2 # None
    /\ comparePage.result.movie1_id = comparePage.movie1.id
    /\ comparePage.result.movie2_id = comparePage.movie2.id

\* C23: clearing a movie sets that movie and result to null and leaves the
\* other movie, the weights, isLoading, error and the request in flight as
\* they are; an error that is displayed changes only by an activation of
\* Compare, which resets it.
C23_ClearFrame ==
  [][/\ clearMovie1 =>
          /\ comparePage'.movie1 = None /\ comparePage'.result = None
          /\ comparePage'.movie2 = comparePage.movie2
          /\ comparePage'.weights = comparePage.weights
          /\ comparePage'.isLoading = comparePage.isLoading
          /\ comparePage'.error = comparePage.error
          /\ net' = net
     /\ clearMovie2 =>
          /\ comparePage'.movie2 = None /\ comparePage'.result = None
          /\ comparePage'.movie1 = comparePage.movie1
          /\ comparePage'.weights = comparePage.weights
          /\ comparePage'.isLoading = comparePage.isLoading
          /\ comparePage'.error = comparePage.error
          /\ net' = net
     /\ (comparePage.error # Null /\ comparePage'.error # comparePage.error) =>
          /\ comparePage'.error = Null /\ comparePage'.isLoading
          /\ Len(net') = Len(net) + 1
          /\ comparePage.movie1 # None /\ comparePage.movie2 # None
    ]_vars

\* a comparison has failed and both movies were cleared: the message is still held
C23_Witness ==
  /\ mounted = "ComparePage"
  /\ comparePage.error # Null /\ ~comparePage.isLoading
  /\ comparePage.movie1 = None /\ comparePage.movie2 = None

\* C24: while the trimmed query is shorter than 2 characters, results is
\* empty and the dropdown is closed.
C24_ShortQueryClosed ==
  Len(Trim(searchBar.query)) < 2 => (searchBar.results = <<>> /\ ~searchBar.isOpen)

\* C25: once every load in flight has settled and no error is held, the
\* movie, the score breakdown, the recommendations and the cast analysis
\* displayed are those of the movie id of the current route.
C25_DataOfCurrentRoute ==
  (mounted = "MoviePage" /\ net = <<>> /\ moviePage.error = Null) =>
    /\ moviePage.movie = [id |-> moviePage.id]
    /\ moviePage.scoreBreakdown = [movie_id |-> moviePage.id]
    /\ moviePage.castAnalysis = [movie_id |-> moviePage.id]
    /\ \A j \in 1..Len(moviePage.recommendations) :
         moviePage.recommendations[j] \div 10 = moviePage.id

\* C26: on the trending page isLoading is true whenever a getTrending request
\* is in flight, so the spinner is shown instead of the grid.
C26_LoadingWhileInFlight ==
  (mounted = "TrendingPage" /\ net # <<>>) =>
    (trendingPage.isLoading /\ TrendingPageView(trendingPage) = "spinner")

\* C27: whenever the scored grid and the statistics panel are shown,
\* scoredMovies is the scored_results of a response to a request for the
\* current time window.
C27_ScoredOfCurrentWindow ==
  (mounted = "TrendingPage" /\ TrendingPageView(trendingPage) = "scored grid and stats") =>
    trendingPage.scoredMovies = ScoredMovies(trendingPage.timeWindow)

\* C28: after a call of setValue the value in memory is the value stored
\* under the key: a call whose write fails leaves the value in memory as it
\* was, and a functional update is applied to the result of the previous
\* update.
C28_MemoryEqualsStorage ==
  [][/\ (localStore'.storedValue # localStore.storedValue \/ localStore'.item # localStore.item) =>
          /\ localStore'.item.present
          /\ JsonParse(localStore'.item.text) = localStore'.storedValue
     /\ (localStore'.item = localStore.item /\ localStore.item.present) =>
          localStore'.storedValue = localStore.storedValue
     /\ (\E written \in BOOLEAN : SetValueFunction(written)) =>
          localStore'.storedValue = Increment(localStore.storedValue)
    ]_vars

====
